---- MODULE Spec2Model ----
(***************************************************************************)
(* rspd: SNI-based TLS proxy (src/src/main.rs).                            *)
(*                                                                         *)
(* The model follows the reader stack of handle_connection:                *)
(*   client socket -> RecordingReader -> HandshakeRecordReader ->          *)
(*   read_sni_host_name_from_client_hello                                  *)
(* and then the lookup, the dial and the copy of the recorded bytes and    *)
(* the live client socket to the upstream.                                 *)
(*                                                                         *)
(* A poll_read of HandshakeRecordReader is a loop; each iteration of the   *)
(* loop is one action (one poll of the underlying reader).                 *)
(*                                                                         *)
(* main's accept loop takes one connection at a time: the variables of a   *)
(* connection are those of the connection main is handling.                *)
(***************************************************************************)
EXTENDS Integers, Sequences, FiniteSets, TLC

VARIABLES
    src,        \* the bytes the client sends on its socket, in order
    eof,        \* TRUE: the client closes after src; FALSE: it goes silent
    pos,        \* number of bytes of src read from the socket so far
    wrapped,    \* TRUE: the underlying reader is a RecordingReader
    tape,       \* RecordingReader.buf
    state,      \* HandshakeRecordReader.state
    call,       \* the poll_read of HandshakeRecordReader in progress, if any;
                \* call.zero_read: a header read of this call returned 0 bytes
                \* and the loop went on
    ret,        \* what the last poll_read returned
    out,        \* every byte HandshakeRecordReader put into a caller's buffer
    mask,       \* (input description) mask[i]: src[i] is a payload byte of a record
    validStream, \* (input description) src is a sequence of complete valid records
    hello,      \* (input description) the ClientHello that src carries
    shortReads, \* (input description) the socket may return fewer bytes than it has
    ext_typ,    \* read_sni_host_name_from_client_hello: ext_typ
    pc,         \* read_sni_host_name_from_client_hello: the await it is at
    need,       \* bytes the current read_exact or skip still asks for
    acc,        \* bytes the current read_exact has collected
    limits,     \* remaining limits of the nested Take readers, outermost first
    task,       \* "running", or "suspended" after a Pending poll
    presult,    \* what read_sni_host_name_from_client_hello returned
    stage,      \* handle_connection: where it is
    upstream,   \* bytes written to the upstream socket
    done_first, \* Chain.done_first of read_buf.chain(client_read_stream)
    tape_pos,   \* bytes of read_buf the chain has read
    timer,      \* the 5 second timer of time::timeout: "off", "armed", "expired"
    result,     \* what handle_connection returned
    dialed,     \* the hosts TcpStream::connect was called with, in order
    client_open, \* the client socket is open
    handoff,    \* bytes read from the client socket when the inspection ended
    c2s,        \* the spawned client-to-server copy: "off", "running", "done", "failed"
    s2c,        \* the server-to-client copy: "off", "running", "done", "failed"
    c2s_buf,    \* bytes io::copy has read and not yet written to the upstream
    upstream_eof, \* the write half of the upstream socket has been shut down
    accept_loop, \* main: "accepting" (line 75), "handling" (line 78), "panicked";
                \* "off" where main is not part of the specification
    accepted,   \* connections accepted so far
    log         \* main's "Closed connection" lines: the results logged, in order

mvars == <<accept_loop, accepted, log>>
\* the inputs: no action of a connection changes them
ivars == <<src, eof, wrapped, mask, validStream, hello, shortReads>>
rvars == <<pos, tape, state, call, ret, out>>
pvars == <<pc, need, acc, limits, ext_typ, task, presult>>
cvars == <<stage, upstream, done_first, tape_pos, timer, result, dialed, client_open,
           handoff, c2s, s2c, c2s_buf, upstream_eof>>
vars == <<mvars, ivars, rvars, pvars, cvars>>

----------------------------------------------------------------------------
(* Bounds of the model.                                                    *)

\* records in a generated stream
MaxRecords == 2
\* payload bytes in a generated record
MaxPayload == 2
\* unfilled capacity of the buffer a caller hands to poll_read
MaxCap == 2
\* unknown extensions before the server_name extension of a generated ClientHello
MaxPre == 1
\* entries in the ServerNameList of a generated ClientHello
MaxNames == 2
\* bytes already filled in the buffer a caller hands to RecordingReader
MaxFill == 1
\* connections the accept loop takes
MaxConns == 2
\* size of the buffer io::copy reads into (tokio's is larger; nothing in the
\* program depends on its size)
CopyBuf == 4

----------------------------------------------------------------------------
(* Program constants.                                                      *)

CONTENT_TYPE_HANDSHAKE == 22
MAX_RECORD_SIZE == 16384

----------------------------------------------------------------------------
(* Helpers on byte sequences.                                              *)

Min(a, b) == IF a <= b THEN a ELSE b

\* s[from..] in Rust's 0-based notation
SliceFrom(s, from) == SubSeq(s, from + 1, Len(s))

\* NetworkEndian::read_u16
NetworkEndian_read_u16_little_endian(b) == b[2] * 256 + b[1]
NetworkEndian_read_u16(b) == b[1] * 256 + b[2]

----------------------------------------------------------------------------
(* RecordingReader                                                         *)

\* Slicing filled[n + 1..] panics when n + 1 > filled.len().
RecordingReader_panics(filled, n) == n + 1 > Len(filled)

\* this.buf.extend(&filled[n + 1..]) after a successful read that started
\* with n bytes filled and left `filled` in the caller's buffer.
RecordingReader_extend(buf, filled, n) == buf \o SliceFrom(filled, n + 1)

----------------------------------------------------------------------------
(* The underlying socket: what one poll_read with `cap` bytes of unfilled  *)
(* capacity can return.  Ok carries the number of bytes read (a short read *)
(* is any positive number up to cap), 0 bytes is end of stream or an empty *)
(* buffer.                                                                 *)

InnerOutcomes(cap) ==
    LET avail == Len(src) - pos
        most == Min(cap, avail)
    IN
      {[kind |-> "Ok", k |-> k] : k \in
          IF cap = 0 THEN {0}
          ELSE IF avail > 0 THEN (IF shortReads THEN 1..most ELSE {most})
          ELSE IF eof THEN {0} ELSE {}}
      \cup (IF avail = 0 /\ eof THEN {} ELSE {[kind |-> "Pending", k |-> 0]})
      \cup {[kind |-> "IoError", k |-> 0]}

\* the k bytes a successful read takes from the socket
Taken(k) == SubSeq(src, pos + 1, pos + k)

----------------------------------------------------------------------------
(* HandshakeRecordReader                                                   *)

ReadingContentType == [tag |-> "ReadingContentType", bytes_read |-> 0,
                       buf |-> <<0, 0>>, remaining |-> 0]
ReadingMajorMinorVersion(n) == [tag |-> "ReadingMajorMinorVersion", bytes_read |-> n,
                       buf |-> <<0, 0>>, remaining |-> 0]
ReadingRecordSize(b, n) == [tag |-> "ReadingRecordSize", bytes_read |-> n,
                       buf |-> b, remaining |-> 0]
ReadingRecord(n) == [tag |-> "ReadingRecord", bytes_read |-> 0,
                       buf |-> <<0, 0>>, remaining |-> n]

NoCall == [active |-> FALSE, cap |-> 0, zero_read |-> FALSE]
NoRet == [kind |-> "none", n |-> 0]
Return(kind, n) == [kind |-> kind, n |-> n]

\* The buffer after a read: the bytes filled before it, then the bytes taken.
Filled(before, o) == before \o Taken(o.k)

\* RecordingReader::poll_read panics on the slice (only when it is the reader).
Panics(before, o) ==
    wrapped /\ o.kind = "Ok" /\ RecordingReader_panics(Filled(before, o), Len(before))

\* One poll of the underlying reader with outcome o into a buffer already
\* holding `before`: the socket position and the tape after it.
ReaderPoll(before, o) ==
    /\ pos' = IF o.kind = "Ok" THEN pos + o.k ELSE pos
    /\ tape' = IF wrapped /\ o.kind = "Ok" /\ ~Panics(before, o)
               THEN RecordingReader_extend(tape, Filled(before, o), Len(before))
               ELSE tape

\* Overwrite buf[from+1 .. from+Len(bytes)] (1-based) with bytes.
WriteAt(buf, from, bytes) ==
    [i \in 1..Len(buf) |->
        IF i > from /\ i <= from + Len(bytes) THEN bytes[i - from] ELSE buf[i]]

Polling == call.active /\ ret.kind = "none"

\* line 225: buf.filled()[0] != CONTENT_TYPE_HANDSHAKE
WrongContentType_lax(b) == b < CONTENT_TYPE_HANDSHAKE
WrongContentType(b) == b # CONTENT_TYPE_HANDSHAKE

\* line 267: record_size > MAX_RECORD_SIZE
RecordTooLarge_off_by_one(record_size) == record_size >= MAX_RECORD_SIZE
RecordTooLarge(record_size) == record_size > MAX_RECORD_SIZE

\* lines 295-299: caller_buf.take(*remaining_record_bytes): the capacity of
\* the buffer handed to the underlying reader
RecordReadCap_uncapped(cap, remaining) == cap
RecordReadCap(cap, remaining) == Min(cap, remaining)

\* lines 248, 264: *bytes_read == 2
HeaderComplete(bytes_read) == bytes_read = 2

\* line 305: *remaining_record_bytes -= bytes_read
RemainingAfter_stale(remaining, bytes_read) == remaining
RemainingAfter(remaining, bytes_read) == remaining - bytes_read

\* The loop of poll_read goes round: the call stays in progress.  A header
\* read that returned Ok with 0 bytes is noted in the call.
LoopAgain(o) ==
    IF o.kind = "Ok" /\ o.k = 0 THEN [call EXCEPT !.zero_read = TRUE] ELSE call

\* lines 219-239
StepContentType ==
    /\ Polling /\ state.tag = "ReadingContentType"
    /\ \E o \in InnerOutcomes(1) :
        /\ ReaderPoll(<<>>, o)
        /\ IF Panics(<<>>, o)
           THEN state' = state /\ ret' = Return("Panic", 0)
           ELSE IF o.kind = "Ok" /\ o.k = 1
           THEN IF WrongContentType(Taken(1)[1])
                THEN state' = state /\ ret' = Return("WrongContentType", 0)
                ELSE state' = ReadingMajorMinorVersion(0) /\ ret' = ret
           ELSE state' = state /\ ret' = Return(o.kind, 0)
    /\ call' = IF ret'.kind = "none" THEN call ELSE NoCall
    /\ UNCHANGED <<mvars, ivars, out, pvars, cvars>>

\* lines 241-255
StepMajorMinorVersion ==
    /\ Polling /\ state.tag = "ReadingMajorMinorVersion"
    /\ LET before == SubSeq(<<0, 0>>, 1, state.bytes_read) IN
       \E o \in InnerOutcomes(2 - state.bytes_read) :
        /\ ReaderPoll(before, o)
        /\ IF Panics(before, o)
           THEN state' = state /\ ret' = Return("Panic", 0)
           ELSE IF o.kind = "Ok"
           THEN /\ state' = IF HeaderComplete(Len(Filled(before, o)))
                             THEN ReadingRecordSize(<<0, 0>>, 0)
                             ELSE ReadingMajorMinorVersion(Len(Filled(before, o)))
                /\ ret' = ret
           ELSE state' = state /\ ret' = Return(o.kind, 0)
        /\ call' = IF ret'.kind = "none" THEN LoopAgain(o) ELSE NoCall
    /\ UNCHANGED <<mvars, ivars, out, pvars, cvars>>

\* lines 257-281
StepRecordSize ==
    /\ Polling /\ state.tag = "ReadingRecordSize"
    /\ LET before == SubSeq(state.buf, 1, state.bytes_read) IN
       \E o \in InnerOutcomes(2 - state.bytes_read) :
        /\ ReaderPoll(before, o)
        /\ IF Panics(before, o)
           THEN state' = state /\ ret' = Return("Panic", 0)
           ELSE IF o.kind = "Ok"
           THEN LET filled == Filled(before, o)
                    buf == WriteAt(state.buf, 0, filled)
                    record_size == NetworkEndian_read_u16(filled)
                IN IF HeaderComplete(Len(filled))
                   THEN IF RecordTooLarge(record_size)
                        THEN /\ state' = ReadingRecordSize(buf, Len(filled))
                             /\ ret' = Return("RecordTooLarge", 0)
                        ELSE /\ state' = ReadingRecord(record_size)
                             /\ ret' = ret
                   ELSE /\ state' = ReadingRecordSize(buf, Len(filled))
                        /\ ret' = ret
           ELSE state' = state /\ ret' = Return(o.kind, 0)
        /\ call' = IF ret'.kind = "none" THEN LoopAgain(o) ELSE NoCall
    /\ UNCHANGED <<mvars, ivars, out, pvars, cvars>>

\* lines 283-311
StepRecord ==
    /\ Polling /\ state.tag = "ReadingRecord"
    /\ \E o \in InnerOutcomes(RecordReadCap(call.cap, state.remaining)) :
        /\ ReaderPoll(<<>>, o)
        /\ IF Panics(<<>>, o)
           THEN state' = state /\ ret' = Return("Panic", 0) /\ out' = out
           ELSE IF o.kind = "Ok"
           THEN /\ out' = out \o Taken(o.k)
                /\ state' = IF RemainingAfter(state.remaining, o.k) = 0
                             THEN ReadingContentType
                             ELSE ReadingRecord(RemainingAfter(state.remaining, o.k))
                /\ ret' = Return("Ok", o.k)
           ELSE state' = state /\ ret' = Return(o.kind, 0) /\ out' = out
    /\ call' = NoCall
    /\ UNCHANGED <<mvars, ivars, pvars, cvars>>

----------------------------------------------------------------------------
(* Input streams for the reader: up to MaxRecords handshake records with   *)
(* up to MaxPayload payload bytes each, then nothing or one tail (a record *)
(* the reader must refuse, or a record cut short).  A payload starts with  *)
(* the byte 22 so that a payload byte taken for a header would pass as a   *)
(* ContentType; the version bytes hold 22 as well.                         *)

Payload(j, n) == [i \in 1..n |-> IF i = 1 THEN 22 ELSE 10 * j + i]
Header(n) == <<22, 3, 22, n \div 256, n % 256>>
Falses(n) == [i \in 1..n |-> FALSE]
Trues(n) == [i \in 1..n |-> TRUE]

RECURSIVE Records(_, _)
Records(lens, j) ==
    IF j > Len(lens) THEN [bytes |-> <<>>, mask |-> <<>>]
    ELSE LET rest == Records(lens, j + 1) IN
         [bytes |-> Header(lens[j]) \o Payload(j, lens[j]) \o rest.bytes,
          mask  |-> Falses(5) \o Trues(lens[j]) \o rest.mask]

RecordLengths == UNION {[1..n -> 0..MaxPayload] : n \in 0..MaxRecords}

Tails ==
    { [bytes |-> <<>>, mask |-> <<>>],
      \* ContentType 23 (application_data) and 0
      [bytes |-> <<23, 3, 3, 0, 1, 9>>, mask |-> Falses(6)],
      [bytes |-> <<0>>, mask |-> Falses(1)],
      \* length 0x4001, 0xFFFF: too large
      [bytes |-> <<22, 3, 3, 64, 1, 9>>, mask |-> Falses(6)],
      [bytes |-> <<22, 3, 3, 255, 255>>, mask |-> Falses(5)],
      \* length 0x4000: the largest allowed; the payload is cut short
      [bytes |-> <<22, 3, 3, 64, 0, 9, 8>>, mask |-> Falses(5) \o Trues(2)],
      \* a header cut short
      [bytes |-> <<22>>, mask |-> Falses(1)],
      [bytes |-> <<22, 3>>, mask |-> Falses(2)],
      [bytes |-> <<22, 3, 3>>, mask |-> Falses(3)],
      [bytes |-> <<22, 3, 3, 0>>, mask |-> Falses(4)],
      \* a payload cut short
      [bytes |-> <<22, 3, 3, 0, 2, 9>>, mask |-> Falses(5) \o Trues(1)] }

\* the payload bytes among the first n bytes of src
RECURSIVE PayloadOf(_)
PayloadOf(n) ==
    IF n = 0 THEN <<>>
    ELSE IF mask[n] THEN Append(PayloadOf(n - 1), src[n]) ELSE PayloadOf(n - 1)

----------------------------------------------------------------------------
(* SpecReader: a HandshakeRecordReader directly over the stream, read by a *)
(* caller that polls with buffers of any capacity up to MaxCap.            *)

NoHello == [wellFormed |-> FALSE, hasHost |-> FALSE, host |-> <<>>,
            pre |-> 0, names |-> <<>>, cut |-> 0, complete |-> FALSE,
            bounds |-> <<>>, validName |-> FALSE]

ParserOff ==
    /\ pc = "off" /\ need = 0 /\ acc = <<>> /\ limits = <<>> /\ ext_typ = 0
    /\ task = "running" /\ presult = NoRet

ConnOff ==
    /\ stage = "off" /\ upstream = <<>> /\ done_first = FALSE /\ tape_pos = 0
    /\ timer = "off" /\ result = NoRet /\ dialed = <<>> /\ client_open = TRUE
    /\ handoff = 0 /\ c2s = "off" /\ s2c = "off" /\ c2s_buf = <<>>
    /\ upstream_eof = FALSE

MainOff == accept_loop = "off" /\ accepted = 0 /\ log = <<>>

ReaderStart ==
    /\ pos = 0 /\ tape = <<>> /\ state = ReadingContentType
    /\ call = NoCall /\ ret = NoRet /\ out = <<>>

InitReader ==
    /\ \E lens \in RecordLengths, t \in Tails :
          LET r == Records(lens, 1) IN
          /\ src = r.bytes \o t.bytes
          /\ mask = r.mask \o t.mask
          /\ validStream = (t.bytes = <<>>)
    /\ hello = NoHello
    /\ shortReads = TRUE
    /\ eof \in BOOLEAN
    /\ wrapped = FALSE
    /\ ReaderStart /\ ParserOff /\ ConnOff /\ MainOff

\* A caller polls the HandshakeRecordReader; it stops after an error.
Caller_poll_read ==
    /\ pc = "off" /\ ~call.active
    /\ ret.kind \in {"none", "Ok", "Pending"}
    /\ \E cap \in 1..MaxCap : call' = [active |-> TRUE, cap |-> cap, zero_read |-> FALSE]
    /\ ret' = NoRet
    /\ UNCHANGED <<mvars, ivars, pos, tape, state, out, pvars, cvars>>

HandshakeRecordReader_poll_read ==
    \/ StepContentType
    \/ StepMajorMinorVersion
    \/ StepRecordSize
    \/ StepRecord

NextReader == Caller_poll_read \/ HandshakeRecordReader_poll_read

SpecReader == InitReader /\ [][NextReader]_vars

\* C3: record reframing: on a stream of valid handshake records, however the
\* underlying reads are split, the bytes surfaced to the caller are exactly
\* the payload bytes among the bytes consumed so far, in order: no header
\* byte is surfaced and no payload byte is lost, duplicated or reordered.
C3_Reframing == validStream => out = PayloadOf(pos)

\* C3 witness: the first record's payload has been surfaced and the length
\* field of the second record is split between two reads.
C3_Witness ==
    /\ validStream /\ out # <<>> /\ out = PayloadOf(pos)
    /\ state.tag = "ReadingRecordSize" /\ state.bytes_read = 1

\* C7: at a record boundary, a next byte other than 22 fails the read at once
\* with the wrong-content-type error: nothing is surfaced and the reader
\* enters no header or payload state for that record.
C7_WrongContentType ==
    [][(/\ Polling /\ state.tag = "ReadingContentType"
        /\ pos' = pos + 1 /\ src[pos + 1] # 22)
       => (/\ ret'.kind = "WrongContentType" /\ ret'.n = 0
           /\ ~call'.active
           /\ out' = out
           /\ state'.tag = "ReadingContentType")]_vars

\* C7 witness: the error is returned for a later record, after a payload
\* has been surfaced.
C7_Witness == ret.kind = "WrongContentType" /\ out # <<>> /\ src[pos] = 23

\* C8: when the second length byte has been read, a length above 16384 fails
\* the read with the record-too-large error and surfaces nothing, and a
\* length of 16384 or less is accepted as the record's payload size; whether
\* the two length bytes came in one read or in two.
C8_RecordSize ==
    [][(/\ Polling /\ state.tag = "ReadingRecordSize"
        /\ pos' > pos /\ state.bytes_read + (pos' - pos) = 2)
       => LET size == src[pos' - 1] * 256 + src[pos'] IN
          IF size > 16384
          THEN /\ ret'.kind = "RecordTooLarge" /\ ret'.n = 0
               /\ ~call'.active
               /\ out' = out
               /\ state'.tag # "ReadingRecord"
          ELSE /\ ret'.kind = "none" /\ call'.active
               /\ out' = out
               /\ state' = ReadingRecord(size)]_vars

\* C8 witness: the length 0x4001 has been refused after a payload was
\* surfaced.
C8_Witness ==
    /\ ret.kind = "RecordTooLarge" /\ state.buf = <<64, 1>> /\ out # <<>>

\* C12: bounded reads: in the payload state one step of the call makes one
\* underlying read of at most min(caller capacity, remaining) bytes and the
\* call returns; what it read is surfaced and counted as returned, it is all
\* payload of the current record, and `remaining` goes down by exactly that
\* number (back to ReadingContentType at 0).  A read that returns Pending or
\* an error reads nothing and leaves the state.
C12_BoundedReads ==
    [][(Polling /\ state.tag = "ReadingRecord")
       => LET n == pos' - pos IN
          /\ ~call'.active /\ ret'.kind # "none"
          /\ n >= 0 /\ n <= Min(call.cap, state.remaining)
          /\ \A i \in (pos + 1)..pos' : mask[i]
          /\ IF ret'.kind = "Ok"
             THEN /\ ret'.n = n
                  /\ out' = out \o SubSeq(src, pos + 1, pos')
                  /\ state' = IF state.remaining = n THEN ReadingContentType
                              ELSE ReadingRecord(state.remaining - n)
             ELSE n = 0 /\ out' = out /\ state' = state]_vars

\* C12 witness: a read returned the last byte of a two-byte payload and
\* stopped at the record boundary, the next record's header still unread.
C12_Witness ==
    /\ ~call.active /\ ret.kind = "Ok" /\ ret.n = 1
    /\ state.tag = "ReadingContentType"
    /\ pos >= 2 /\ mask[pos] /\ mask[pos - 1]
    /\ pos < Len(src) /\ ~mask[pos + 1]

\* C17 (as claimed): once the underlying reader has answered a read of the
\* version or length bytes with end of stream, the call has returned, and
\* with the unexpected-EOF error: it is not still looping, and it has not
\* reported a clean end of stream.
C17_MidHeaderEof ==
    /\ (state.tag \in {"ReadingMajorMinorVersion", "ReadingRecordSize"}
          /\ call.zero_read)
         => (~call.active /\ ret.kind = "UnexpectedEof")
    /\ (state.tag \in {"ReadingMajorMinorVersion", "ReadingRecordSize"}
          /\ ~call.active /\ pos = Len(src) /\ eof /\ ret.kind \notin {"none", "IoError"})
         => ret.kind = "UnexpectedEof"

\* C18 (as claimed): a record of declared length 0 is transparent: decoding
\* the length 0 does not leave the reader in the payload state, and no
\* successful read of 0 bytes is returned while the stream has not ended.
C18_EmptyRecordTransparent ==
    /\ state.tag = "ReadingRecord" => state.remaining > 0
    /\ (ret.kind = "Ok" /\ ret.n = 0) => (pos = Len(src) /\ eof)

\* C19 (as claimed): between read calls the version counter is 0 or 1, the
\* length counter is 0 or 1 with the first length byte kept in the state,
\* and `remaining` is at most 16384.
C19_StateInvariant ==
    ~call.active
      => /\ state.tag = "ReadingMajorMinorVersion" => state.bytes_read \in {0, 1}
         /\ state.tag = "ReadingRecordSize" => state.bytes_read \in {0, 1}
         /\ (state.tag = "ReadingRecordSize" /\ state.bytes_read = 1)
               => state.buf[1] = src[pos]
         /\ state.tag = "ReadingRecord" => state.remaining <= 16384

----------------------------------------------------------------------------
(* SpecTape: a RecordingReader over the stream, read by a caller whose     *)
(* buffer already holds n bytes (up to MaxFill) and has up to MaxCap bytes *)
(* of capacity left.                                                       *)

InitTape ==
    /\ \E lens \in RecordLengths :
          LET r == Records(lens, 1) IN
          /\ src = r.bytes
          /\ mask = r.mask
          /\ validStream = TRUE
    /\ hello = NoHello
    /\ shortReads = TRUE
    /\ eof \in BOOLEAN
    /\ wrapped = TRUE
    /\ ReaderStart /\ ParserOff /\ ConnOff /\ MainOff

\* lines 170-185
RecordingReader_poll_read ==
    /\ ret.kind \in {"none", "Ok", "Pending"}
    /\ \E n \in 0..MaxFill, cap \in 1..MaxCap :
       LET before == Falses(n) IN
       \E o \in InnerOutcomes(cap) :
        /\ ReaderPoll(before, o)
        /\ ret' = IF Panics(before, o) THEN Return("Panic", 0) ELSE Return(o.kind, o.k)
    /\ UNCHANGED <<mvars, ivars, state, call, out, pvars, cvars>>

NextTape == RecordingReader_poll_read

SpecTape == InitTape /\ [][NextTape]_vars

\* C1 (as claimed): tape fidelity: after k bytes in total have been returned
\* through a RecordingReader, its tape is the first k bytes of the source.
C1_TapeFidelity == wrapped => tape = SubSeq(src, 1, pos)

----------------------------------------------------------------------------
(* read_sni_host_name_from_client_hello                                    *)
(*                                                                         *)
(* The function is a sequence of read_exact and skip calls on a stack of   *)
(* Take readers over the HandshakeRecordReader.  pc names the call it is   *)
(* in; need is what that call still asks for.                              *)

HANDSHAKE_TYPE_CLIENT_HELLO == 1
EXTENSION_TYPE_SNI == 0
NAME_TYPE_HOST_NAME == 0
\* line 339: ProtocolVersion (2 bytes) & random (32 bytes)
VERSION_AND_RANDOM_LEN == 34

\* NetworkEndian::read_u24
NetworkEndian_read_u24(b) == b[1] * 65536 + b[2] * 256 + b[3]

\* String::from_utf8 accepts exactly the well-formed UTF-8 byte sequences.
Cont(b) == b >= 128 /\ b <= 191
RECURSIVE IsUtf8(_)
IsUtf8(b) ==
    IF b = <<>> THEN TRUE
    ELSE LET x == b[1]
             n == Len(b)
         IN IF x <= 127 THEN IsUtf8(Tail(b))
            ELSE IF x >= 194 /\ x <= 223
            THEN n >= 2 /\ Cont(b[2]) /\ IsUtf8(SubSeq(b, 3, n))
            ELSE IF x >= 224 /\ x <= 239
            THEN /\ n >= 3
                 /\ b[2] >= (IF x = 224 THEN 160 ELSE 128)
                 /\ b[2] <= (IF x = 237 THEN 159 ELSE 191)
                 /\ Cont(b[3])
                 /\ IsUtf8(SubSeq(b, 4, n))
            ELSE IF x >= 240 /\ x <= 244
            THEN /\ n >= 4
                 /\ b[2] >= (IF x = 240 THEN 144 ELSE 128)
                 /\ b[2] <= (IF x = 244 THEN 143 ELSE 191)
                 /\ Cont(b[3]) /\ Cont(b[4])
                 /\ IsUtf8(SubSeq(b, 5, n))
            ELSE FALSE

\* the awaits that are a skip (io::copy into a sink); the others are read_exact
SkipPcs == {"skip_random", "skip_session_id", "skip_cipher_suites",
            "skip_compression", "skip_extension", "skip_name"}

ParserActive == pc \notin {"off", "done"}

\* (a Take that looked at its own limit only would be TakeCap_innermost)
TakeCap_innermost(lims, cap) ==
    IF lims = <<>> THEN cap ELSE Min(cap, lims[Len(lims)])

\* The capacity that reaches the HandshakeRecordReader through the Take
\* readers: each Take caps the buffer at its limit.
RECURSIVE TakeCap(_, _)
TakeCap(lims, cap) ==
    IF lims = <<>> THEN cap ELSE TakeCap(Tail(lims), Min(cap, Head(lims)))

\* Every Take counts the bytes read through it.
TakeAdvance(lims, n) == [i \in 1..Len(lims) |-> lims[i] - n]

\* reader.take(len) on top of the current readers
TakePush_unbounded(lims, len) == lims
TakePush(lims, len) == Append(lims, len)

\* the bytes the last poll_read put into the caller's buffer
Returned == SubSeq(out, Len(out) - ret.n + 1, Len(out))

\* read_exact and io::copy poll the reader.  A Take whose limit is 0 answers
\* end of stream without polling the reader below it.
Parser_poll ==
    /\ ParserActive /\ task = "running"
    /\ ~call.active /\ ret.kind = "none" /\ need > 0
    /\ LET want == IF pc \in SkipPcs THEN Min(CopyBuf, need) ELSE need
           cap == TakeCap(limits, want)
       IN IF cap = 0
          THEN call' = call /\ ret' = Return("Ok", 0)
          ELSE call' = [active |-> TRUE, cap |-> cap, zero_read |-> FALSE] /\ ret' = ret
    /\ UNCHANGED <<mvars, ivars, pos, tape, state, out, pvars, cvars>>

\* time::timeout polls the timer when the inspection is Pending (line 105).
Elapsed_never == FALSE
Elapsed == stage = "inspect" /\ timer = "expired"

\* What read_exact (lines 405-421, 381) and io::copy (line 391) do with the
\* result of a poll.
Parser_resume ==
    /\ ParserActive /\ ~call.active /\ ret.kind # "none"
    /\ ret' = NoRet
    /\ IF ret.kind = "Ok" /\ ret.n > 0
       THEN /\ need' = need - ret.n
            /\ acc' = IF pc \in SkipPcs THEN acc ELSE acc \o Returned
            /\ limits' = TakeAdvance(limits, ret.n)
            /\ UNCHANGED <<pc, task, presult>>
       ELSE IF ret.kind = "Ok"
       THEN IF pc \in SkipPcs
            THEN need' = 0 /\ UNCHANGED <<pc, acc, limits, task, presult>>
            ELSE /\ pc' = "done" /\ presult' = Return("UnexpectedEof", 0)
                 /\ UNCHANGED <<need, acc, limits, task>>
       ELSE IF ret.kind = "Pending"
       THEN IF Elapsed
            THEN /\ pc' = "done" /\ presult' = Return("TimedOut", 0)
                 /\ UNCHANGED <<need, acc, limits, task>>
            ELSE task' = "suspended" /\ UNCHANGED <<pc, need, acc, limits, presult>>
       ELSE /\ pc' = "done" /\ presult' = Return(ret.kind, 0)
            /\ UNCHANGED <<need, acc, limits, task>>
    /\ UNCHANGED <<mvars, ivars, pos, tape, state, call, out, ext_typ, cvars>>

\* The socket has something new: the task is polled again.
Wake ==
    /\ ParserActive /\ task = "suspended"
    /\ pos < Len(src) \/ eof
    /\ task' = "running"
    /\ UNCHANGED <<mvars, ivars, rvars, pc, need, acc, limits, ext_typ, presult, cvars>>

\* the next await: a read_exact of n bytes, or a skip of n bytes
Goto(label, n) == pc' = label /\ need' = n /\ acc' = <<>>

Fail(kind) == pc' = "done" /\ presult' = Return(kind, 0) /\ UNCHANGED <<need, acc>>

\* lines 317-388: the current read_exact or skip is complete
Parser_advance ==
    /\ ParserActive /\ task = "running"
    /\ ~call.active /\ ret.kind = "none" /\ need = 0
    /\ CASE pc = "typ" ->
              /\ IF acc[1] # HANDSHAKE_TYPE_CLIENT_HELLO
                 THEN Fail("NotClientHello")
                 ELSE Goto("len", 3) /\ presult' = presult
              /\ UNCHANGED <<limits, ext_typ>>
         [] pc = "len" ->
              /\ limits' = TakePush(limits, NetworkEndian_read_u24(acc))
              /\ Goto("skip_random", VERSION_AND_RANDOM_LEN)
              /\ UNCHANGED <<ext_typ, presult>>
         [] pc = "skip_random" ->
              Goto("session_id_len", 1) /\ UNCHANGED <<limits, ext_typ, presult>>
         [] pc = "session_id_len" ->
              Goto("skip_session_id", acc[1]) /\ UNCHANGED <<limits, ext_typ, presult>>
         [] pc = "skip_session_id" ->
              Goto("cipher_suites_len", 2) /\ UNCHANGED <<limits, ext_typ, presult>>
         [] pc = "cipher_suites_len" ->
              /\ Goto("skip_cipher_suites", NetworkEndian_read_u16(acc))
              /\ UNCHANGED <<limits, ext_typ, presult>>
         [] pc = "skip_cipher_suites" ->
              Goto("compression_len", 1) /\ UNCHANGED <<limits, ext_typ, presult>>
         [] pc = "compression_len" ->
              Goto("skip_compression", acc[1]) /\ UNCHANGED <<limits, ext_typ, presult>>
         [] pc = "skip_compression" ->
              Goto("extensions_len", 2) /\ UNCHANGED <<limits, ext_typ, presult>>
         [] pc = "extensions_len" ->
              /\ limits' = TakePush(limits, NetworkEndian_read_u16(acc))
              /\ Goto("ext_typ", 2)
              /\ UNCHANGED <<ext_typ, presult>>
         [] pc = "ext_typ" ->
              /\ ext_typ' = NetworkEndian_read_u16(acc)
              /\ Goto("ext_len", 2)
              /\ UNCHANGED <<limits, presult>>
         [] pc = "ext_len" ->
              /\ IF ext_typ # EXTENSION_TYPE_SNI
                 THEN /\ Goto("skip_extension", NetworkEndian_read_u16(acc))
                      /\ limits' = limits
                 ELSE /\ limits' = TakePush(limits, NetworkEndian_read_u16(acc))
                      /\ Goto("snl_len", 2)
              /\ UNCHANGED <<ext_typ, presult>>
         [] pc = "skip_extension" ->
              Goto("ext_typ", 2) /\ UNCHANGED <<limits, ext_typ, presult>>
         [] pc = "snl_len" ->
              /\ limits' = TakePush(limits, NetworkEndian_read_u16(acc))
              /\ Goto("name_typ", 1)
              /\ UNCHANGED <<ext_typ, presult>>
         [] pc = "name_typ" ->
              /\ IF acc[1] # NAME_TYPE_HOST_NAME
                 THEN Goto("skip_name_len", 2)
                 ELSE Goto("name_len", 2)
              /\ UNCHANGED <<limits, ext_typ, presult>>
         [] pc = "skip_name_len" ->
              /\ Goto("skip_name", NetworkEndian_read_u16(acc))
              /\ UNCHANGED <<limits, ext_typ, presult>>
         [] pc = "skip_name" ->
              Goto("name_typ", 1) /\ UNCHANGED <<limits, ext_typ, presult>>
         [] pc = "name_len" ->
              /\ Goto("name", NetworkEndian_read_u16(acc))
              /\ UNCHANGED <<limits, ext_typ, presult>>
         [] pc = "name" ->
              /\ pc' = "done"
              /\ presult' = IF IsUtf8(acc) THEN Return("Ok", 0) ELSE Return("InvalidUtf8", 0)
              /\ UNCHANGED <<need, acc, limits, ext_typ>>
    /\ UNCHANGED <<mvars, ivars, rvars, task, cvars>>

read_sni_host_name_from_client_hello ==
    \/ Parser_poll
    \/ Parser_resume
    \/ Wake
    \/ Parser_advance

ParserStart ==
    /\ pc = "typ" /\ need = 1 /\ acc = <<>> /\ limits = <<>> /\ ext_typ = 0
    /\ task = "running" /\ presult = NoRet

----------------------------------------------------------------------------
(* Input ClientHellos: `pre` unknown extensions (type 43, bodies of zero   *)
(* bytes), then possibly a server_name extension whose list holds entries  *)
(* of an unknown name type ("other") and host_name entries ("a", "bc"),    *)
(* then one more unknown extension; also a ClientHello with an empty       *)
(* extensions block and one without the block.  The message is carried in  *)
(* one handshake record or cut into two.                                   *)

U16(n) == <<n \div 256, n % 256>>
U24(n) == <<n \div 65536, (n \div 256) % 256, n % 256>>

RECURSIVE Flatten(_)
Flatten(ss) == IF ss = <<>> THEN <<>> ELSE Head(ss) \o Flatten(Tail(ss))

NameKinds == {"other", "a", "bc"}
HostNameOf(kind) ==
    IF kind = "a" THEN <<97>> ELSE IF kind = "A" THEN <<65>> ELSE <<98, 99>>
NameEntry(kind) ==
    IF kind = "other" THEN <<1>> \o U16(1) \o <<0>>
    ELSE <<0>> \o U16(Len(HostNameOf(kind))) \o HostNameOf(kind)

UnknownExtension(j) == <<0, 43>> \o U16(j) \o [i \in 1..j |-> 0]
ServerNameExtension(kinds) ==
    LET list == Flatten([i \in 1..Len(kinds) |-> NameEntry(kinds[i])])
    IN <<0, 0>> \o U16(2 + Len(list)) \o U16(Len(list)) \o list

\* sni: <<>> for no server_name extension, else <<kinds>>
Extensions(pre, sni) ==
    Flatten([j \in 1..pre |-> UnknownExtension(j)])
    \o (IF sni = <<>> THEN <<>> ELSE ServerNameExtension(sni[1]))
    \o UnknownExtension(1)

\* withExts = FALSE: the message ends after the compression methods
ClientHello(exts, withExts) ==
    LET body == <<3, 3>> \o [i \in 1..32 |-> i]
                \o <<2, 0, 0>> \o <<0, 2, 19, 1>> \o <<1, 0>>
                \o (IF withExts THEN U16(Len(exts)) \o exts ELSE <<>>)
    IN <<1>> \o U24(Len(body)) \o body

HostKinds(kinds) == SelectSeq(kinds, LAMBDA k : k # "other")

HelloOf(pre, sni) ==
    [wellFormed |-> TRUE,
     hasHost |-> sni # <<>> /\ HostKinds(sni[1]) # <<>>,
     host |-> IF sni # <<>> /\ HostKinds(sni[1]) # <<>>
              THEN HostNameOf(HostKinds(sni[1])[1]) ELSE <<>>,
     pre |-> pre,
     names |-> IF sni = <<>> THEN <<>> ELSE sni[1],
     cut |-> 0,
     complete |-> TRUE,
     bounds |-> <<>>,
     validName |-> TRUE]

\* the message in one record (cut = 0) or in two, cut after `cut` bytes
Fragments(msg, cut) ==
    IF cut = 0
    THEN [bytes |-> Header(Len(msg)) \o msg, mask |-> Falses(5) \o Trues(Len(msg))]
    ELSE [bytes |-> Header(cut) \o SubSeq(msg, 1, cut)
                    \o Header(Len(msg) - cut) \o SubSeq(msg, cut + 1, Len(msg)),
          mask |-> Falses(5) \o Trues(cut) \o Falses(5) \o Trues(Len(msg) - cut)]

\* cuts inside the 24-bit length, the cipher suites length and the first
\* extension's type
Cuts(n) == {0, 2, 42, 50} \cap (0..(n - 1))

NameLists == UNION {[1..n -> NameKinds] : n \in 0..MaxNames}

HelloInputs ==
    {[exts |-> Extensions(pre, sni), withExts |-> TRUE, hello |-> HelloOf(pre, sni)] :
        pre \in 0..MaxPre, sni \in {<<>>} \cup {<<l>> : l \in NameLists}}
    \cup {[exts |-> <<>>, withExts |-> b, hello |-> HelloOf(0, <<>>)] : b \in BOOLEAN}

----------------------------------------------------------------------------
(* SpecParser: read_sni_host_name_from_client_hello on a                   *)
(* HandshakeRecordReader directly over the stream.                         *)

InitParser ==
    /\ \E in \in HelloInputs :
        LET msg == ClientHello(in.exts, in.withExts) IN
        \E cut \in Cuts(Len(msg)) :
           /\ src = Fragments(msg, cut).bytes
           /\ mask = Fragments(msg, cut).mask
           /\ hello = [in.hello EXCEPT !.cut = cut]
    /\ validStream = TRUE
    /\ shortReads = TRUE
    \* the function is never polling when these streams are at their end
    \* (every message is complete), so the client just stays silent after
    \* it; streams that end early are in SpecDeclared and Spec
    /\ eof = FALSE
    /\ wrapped = FALSE
    /\ ReaderStart /\ ParserStart /\ ConnOff /\ MainOff

NextParser == read_sni_host_name_from_client_hello \/ HandshakeRecordReader_poll_read

SpecParser == InitParser /\ [][NextParser]_vars

\* The executor polls a task that can run.
FairSpecParser == SpecParser /\ WF_vars(NextParser)

\* C4: for a well-formed ClientHello with a host_name entry, the function
\* returns exactly the bytes of the first host_name entry (unless the socket
\* itself fails), whatever precedes or follows it and however the message is
\* cut into records.
C4_SniExtraction ==
    (hello.wellFormed /\ hello.hasHost /\ pc = "done")
        => \/ presult.kind = "Ok" /\ acc = hello.host
           \/ presult.kind = "IoError"

\* C4 witness: the name "a" is returned from a message cut into two records,
\* in which an unknown extension precedes the server_name extension, and an
\* entry of unknown type precedes and a second host_name entry follows.
C4_Witness ==
    /\ pc = "done" /\ presult.kind = "Ok" /\ acc = <<97>>
    /\ hello.pre >= 1 /\ hello.cut > 0
    /\ hello.names = <<"other", "a">> \/ hello.names = <<"a", "bc">>

\* C9: for a ClientHello without a host_name entry the function never returns
\* a name, and it ends with the end-of-stream error (or the socket's error)
\* unless the socket answers Pending again and again.
C9_NoSniTerminates ==
    (hello.wellFormed /\ ~hello.hasHost)
        => /\ [](pc = "done" => presult.kind \in {"UnexpectedEof", "IoError"})
           /\ \/ <>(pc = "done")
              \/ []<>(ret.kind = "Pending")

\* C9 witness: the end-of-stream error is returned for a server_name list with
\* an entry but no host_name entry.
C9_Witness ==
    /\ pc = "done" /\ presult.kind = "UnexpectedEof"
    /\ hello.names = <<"other">>

----------------------------------------------------------------------------
(* SpecDeclared: read_sni_host_name_from_client_hello on ClientHellos      *)
(* whose length fields do not agree with each other or with the stream,    *)
(* and on host names that are empty or not UTF-8.  The message is a        *)
(* ClientHello with a server_name extension holding one host_name entry,   *)
(* followed by one unknown extension; its length fields are then           *)
(* overwritten with the declared values.  Offsets in the message: the      *)
(* 24-bit length at 1, the extensions length at 47, the first extension's  *)
(* type at 49 and length at 51, the ServerNameList length at 53, the       *)
(* name_type at 55, the name length at 56, the name at 58.                 *)

SniOnly(name) ==
    <<0, 0>> \o U16(5 + Len(name)) \o U16(3 + Len(name))
    \o <<0>> \o U16(Len(name)) \o name

\* the lengths a well-formed message with this name declares
TrueLengths(name) ==
    [name |-> name, L |-> 59 + Len(name), E |-> 14 + Len(name), typ |-> 0,
     X |-> 5 + Len(name), S |-> 3 + Len(name), N |-> Len(name), keep |-> 0]

DeclaredHello(d) ==
    LET m0 == ClientHello(SniOnly(d.name) \o UnknownExtension(1), TRUE)
        m1 == WriteAt(m0, 1, U24(d.L))
        m2 == WriteAt(m1, 47, U16(d.E))
        m3 == WriteAt(m2, 49, U16(d.typ))
        m4 == WriteAt(m3, 51, U16(d.X))
        m5 == WriteAt(m4, 53, U16(d.S))
    IN WriteAt(m5, 56, U16(d.N))

\* the most the function may take from its reader under each declared length
DeclaredBounds(d) ==
    IF d.typ = EXTENSION_TYPE_SNI
    THEN <<4 + d.L, 49 + d.E, 53 + d.X, 55 + d.S>>
    ELSE <<4 + d.L, 49 + d.E>>

TrueHello == TrueLengths(<<97>>)

DeclaredInputs ==
    { TrueHello,
      \* the message length ends inside the random, inside the server_name entry
      [TrueHello EXCEPT !.L = 20], [TrueHello EXCEPT !.L = 52],
      \* the extensions length ends inside the server_name extension
      [TrueHello EXCEPT !.E = 5],
      \* the extension is shorter than its list, the list than its entry
      [TrueHello EXCEPT !.X = 3], [TrueHello EXCEPT !.S = 2],
      \* the name is longer than the list, the list than the extension
      [TrueHello EXCEPT !.N = 5], [TrueHello EXCEPT !.S = 9, !.N = 6],
      \* the extension, its list and its name are longer than the extensions
      [TrueHello EXCEPT !.E = 12, !.X = 30, !.S = 28, !.N = 25],
      \* an unknown extension longer than the extensions
      [TrueHello EXCEPT !.E = 12, !.typ = 43, !.X = 30],
      \* a true message of which the stream holds the first 24 bytes only
      [TrueHello EXCEPT !.keep = 24],
      \* an empty name; a name that is not UTF-8; a two-byte character; half of one
      TrueLengths(<<>>), TrueLengths(<<255>>),
      TrueLengths(<<195, 169>>), TrueLengths(<<195>>) }

InitDeclared ==
    /\ \E d \in DeclaredInputs :
        LET msg == DeclaredHello(d)
            whole == Fragments(msg, 0)
            n == IF d.keep = 0 THEN Len(whole.bytes) ELSE 5 + d.keep
        IN /\ src = SubSeq(whole.bytes, 1, n)
           /\ mask = SubSeq(whole.mask, 1, n)
           /\ hello = [NoHello EXCEPT !.hasHost = (d.typ = EXTENSION_TYPE_SNI),
                                      !.host = d.name,
                                      !.complete = (d.keep = 0),
                                      !.bounds = DeclaredBounds(d),
                                      !.validName = (d.name \in {<<97>>, <<>>, <<195, 169>>})]
    /\ validStream = FALSE
    /\ shortReads = TRUE
    /\ eof \in BOOLEAN
    /\ wrapped = FALSE
    /\ ReaderStart /\ ParserStart /\ ConnOff /\ MainOff

SpecDeclared == InitDeclared /\ [][NextParser]_vars

\* C11: length boundedness: whatever the inner length fields declare, the
\* function takes from its reader at most 4 + L bytes (L the declared
\* message length), at most the declared extensions length after the
\* extensions length field, and inside the server_name extension at most its
\* declared length and at most the declared ServerNameList length.
C11_LengthBounded ==
    \A i \in DOMAIN hello.bounds : Len(out) <= hello.bounds[i]

\* C11 witness: the name declared 25 bytes inside extensions declared to end
\* 3 bytes on; the function stopped there with the end-of-stream error,
\* before the bytes that follow in the stream.
C11_Witness ==
    /\ pc = "done" /\ presult.kind = "UnexpectedEof"
    /\ Len(hello.bounds) = 4 /\ Len(out) = hello.bounds[2]
    /\ Len(acc) = 3 /\ need = 22 /\ pos < Len(src)

\* C13 (as claimed): a skip never takes more than it was asked for, and when
\* its reader reports end of stream while bytes are still owed, the skip
\* fails: the function ends with an error instead of going on.
C13_SkipExact ==
    /\ [](pc \in SkipPcs => need >= 0)
    /\ [][(pc \in SkipPcs /\ need > 0 /\ ret.kind = "Ok" /\ ret.n = 0 /\ ret' = NoRet)
            => (pc' = "done" /\ presult'.kind \notin {"none", "Ok"})]_vars

\* C20 (as claimed): a name returned successfully is valid UTF-8 and 1 to
\* 65535 bytes long.
C20_HostNameValid ==
    (pc = "done" /\ presult.kind = "Ok")
        => /\ acc = hello.host /\ hello.validName
           /\ Len(acc) >= 1 /\ Len(acc) <= 65535

----------------------------------------------------------------------------
(* handle_connection                                                       *)

\* Config.host_mappings: the configuration maps the name "a" only
host_mappings == [name \in {<<97>>} |-> "upstream-a"]

\* line 115: cfg.host_mappings.get(&sni_hostname)
Lookup_ignoring_case(name) ==
    LET lower == [i \in 1..Len(name) |->
                    IF name[i] >= 65 /\ name[i] <= 90 THEN name[i] + 32 ELSE name[i]]
    IN IF lower \in DOMAIN host_mappings THEN <<host_mappings[lower]>> ELSE <<>>
Lookup(name) ==
    IF name \in DOMAIN host_mappings THEN <<host_mappings[name]>> ELSE <<>>

Close(r) ==
    /\ stage' = "closed" /\ result' = r /\ client_open' = FALSE /\ timer' = "off"

\* The timer fires 5 seconds after the inspection started (lines 105-106).
TimerExpire ==
    /\ stage = "inspect" /\ timer = "armed"
    /\ timer' = "expired"
    /\ UNCHANGED <<mvars, ivars, rvars, pvars, stage, upstream, done_first, tape_pos, result,
                   dialed, client_open, handoff, c2s, s2c, c2s_buf, upstream_eof>>

\* The timer wakes the suspended inspection: time::timeout returns Elapsed.
Timeout ==
    /\ ParserActive /\ task = "suspended" /\ Elapsed
    /\ pc' = "done" /\ presult' = Return("TimedOut", 0)
    /\ UNCHANGED <<mvars, ivars, rvars, need, acc, limits, ext_typ, task, cvars>>

\* lines 109-128: the inspection has returned; `??` returns its error, the
\* lookup returns the unknown-name error, a panic unwinds.
Inspected ==
    /\ stage = "inspect" /\ pc = "done"
    /\ IF presult.kind # "Ok"
       THEN Close(presult) /\ handoff' = handoff
       ELSE IF Lookup(acc) = <<>>
       THEN Close(Return("UnknownHost", 0)) /\ handoff' = handoff
       ELSE /\ stage' = "dial" /\ timer' = "off" /\ handoff' = pos
            /\ UNCHANGED <<result, client_open>>
    /\ UNCHANGED <<mvars, ivars, rvars, pvars, upstream, done_first, tape_pos, dialed,
                   c2s, s2c, c2s_buf, upstream_eof>>

\* lines 129-144: TcpStream::connect; on success the copy task is spawned
Dial ==
    /\ stage = "dial"
    /\ dialed' = dialed \o Lookup(acc)
    /\ \/ /\ stage' = "splice" /\ c2s' = "running" /\ s2c' = "running"
          /\ UNCHANGED <<result, client_open, timer>>
       \/ /\ Close(Return("DialFailed", 0))
          /\ UNCHANGED <<c2s, s2c>>
    /\ UNCHANGED <<mvars, ivars, rvars, pvars, upstream, done_first, tape_pos, handoff,
                   c2s_buf, upstream_eof>>

\* Chain::poll_read of read_buf.chain(client_read_stream) (line 138): the
\* first reader is read until it returns nothing
ChainFirst_skipped(done) == FALSE
ChainFirst(done) == ~done

\* io::copy (lines 137-141) reads into its buffer: from the tape, then from
\* the client socket.
CopyRead ==
    /\ c2s = "running" /\ c2s_buf = <<>>
    /\ LET amt == Min(Len(tape) - tape_pos, CopyBuf) IN
       IF ChainFirst(done_first) /\ amt > 0
       THEN /\ c2s_buf' = SubSeq(tape, tape_pos + 1, tape_pos + amt)
            /\ tape_pos' = tape_pos + amt
            /\ UNCHANGED <<pos, done_first, c2s, upstream_eof>>
       ELSE /\ done_first' = TRUE
            /\ tape_pos' = tape_pos
            /\ \E o \in InnerOutcomes(CopyBuf) :
                /\ pos' = pos + o.k
                /\ c2s_buf' = Taken(o.k)
                /\ c2s' = IF o.kind = "IoError" THEN "failed"
                          ELSE IF o.kind = "Ok" /\ o.k = 0 THEN "done"
                          ELSE c2s
                /\ upstream_eof' = (c2s' # "running")
    /\ UNCHANGED <<mvars, ivars, tape, state, call, ret, out, pvars, stage, upstream, timer,
                   result, dialed, client_open, handoff, s2c>>

\* io::copy writes its buffer to the upstream, or the write fails; the task
\* then ends and drops the write half.
CopyWrite ==
    /\ c2s = "running" /\ c2s_buf # <<>>
    /\ \/ /\ upstream' = upstream \o c2s_buf
          /\ UNCHANGED <<c2s, upstream_eof>>
       \/ /\ c2s' = "failed" /\ upstream_eof' = TRUE
          /\ upstream' = upstream
    /\ c2s_buf' = <<>>
    /\ UNCHANGED <<mvars, ivars, rvars, pvars, stage, done_first, tape_pos, timer, result,
                   dialed, client_open, handoff, s2c>>

\* line 145: the copy from the upstream to the client ends (end of stream,
\* or an error)
CopyBack ==
    /\ s2c = "running"
    /\ s2c' \in {"done", "failed"}
    /\ UNCHANGED <<mvars, ivars, rvars, pvars, stage, upstream, done_first, tape_pos, timer,
                   result, dialed, client_open, handoff, c2s, c2s_buf, upstream_eof>>

\* lines 145-147: io::copy(..).await, then client_to_server_handle.await:
\* the handler goes on when both have ended
JoinReady_first(s, c) == s # "running"
JoinReady(s, c) == s # "running" /\ c # "running"

\* lines 145-147: both copies have ended; handle_connection returns
Joined ==
    /\ stage = "splice" /\ JoinReady(s2c, c2s)
    /\ Close(IF s2c = "failed" \/ c2s = "failed"
             THEN Return("IoError", 0) ELSE Return("Ok", 0))
    /\ UNCHANGED <<mvars, ivars, rvars, pvars, upstream, done_first, tape_pos, dialed,
                   handoff, c2s, s2c, c2s_buf, upstream_eof>>

handle_connection ==
    \/ TimerExpire
    \/ Timeout
    \/ Inspected
    \/ Dial
    \/ CopyRead
    \/ CopyWrite
    \/ CopyBack
    \/ Joined

ConnStart ==
    /\ stage = "inspect" /\ timer = "armed"
    /\ upstream = <<>> /\ done_first = FALSE /\ tape_pos = 0
    /\ result = NoRet /\ dialed = <<>> /\ client_open = TRUE
    /\ handoff = 0 /\ c2s = "off" /\ s2c = "off" /\ c2s_buf = <<>>
    /\ upstream_eof = FALSE

----------------------------------------------------------------------------
(* Spec: one connection through handle_connection.  The client sends a     *)
(* ClientHello (complete and followed by another record, or cut short      *)
(* after 3 or 30 bytes), or a record the reader refuses; then it closes or *)
(* goes silent.  The socket returns whole buffers here; short reads are    *)
(* explored in SpecTape, SpecReader and SpecParser.                        *)

ConnNameLists == {<<"a">>, <<"A">>, <<"bc">>, <<"other", "a">>}

ConnInputs ==
    {[exts |-> Extensions(0, sni), hello |-> HelloOf(0, sni)] :
        sni \in {<<>>} \cup {<<l>> : l \in ConnNameLists}}

\* the client's next record after the ClientHello
NextFlight == <<20, 3, 3, 0, 1, 1>>

RefusedStreams == {<<23, 3, 3, 0, 1, 9>>, <<22, 3, 3, 64, 1, 9>>}

Init ==
    /\ \/ \E in \in ConnInputs :
            LET msg == ClientHello(in.exts, TRUE) IN
            \E cut \in {0, 42} :
              LET whole == Fragments(msg, cut).bytes IN
              \E keep \in {3, 30, Len(whole)} :
                /\ src = IF keep = Len(whole) THEN whole \o NextFlight
                         ELSE SubSeq(whole, 1, keep)
                /\ hello = [in.hello EXCEPT !.cut = cut, !.complete = (keep = Len(whole))]
       \/ /\ src \in RefusedStreams
          /\ hello = NoHello
    /\ mask = Falses(Len(src))
    /\ validStream = FALSE
    /\ shortReads = FALSE
    /\ eof \in BOOLEAN
    /\ wrapped = TRUE
    /\ ReaderStart /\ ParserStart /\ ConnStart
    /\ accept_loop = "handling" /\ accepted = 1 /\ log = <<>>

Next ==
    \/ handle_connection
    \/ read_sni_host_name_from_client_hello
    \/ HandshakeRecordReader_poll_read

Spec == Init /\ [][Next]_vars

\* The steps of the connection's task (the environment's are apart: the
\* timer, the upstream ending its stream).
TaskStep ==
    \/ read_sni_host_name_from_client_hello
    \/ HandshakeRecordReader_poll_read
    \/ Inspected

\* The executor polls a task that can run, and the timer fires.
FairSpec == Spec /\ WF_vars(TaskStep) /\ WF_vars(TimerExpire) /\ WF_vars(Timeout)

IsPrefix(a, b) == Len(a) <= Len(b) /\ a = SubSeq(b, 1, Len(a))

\* C2 (as claimed): splice transparency: the bytes written to the upstream
\* are the client's stream, byte for byte, and all of it once the client's
\* end of stream has been copied.
C2_SpliceTransparency ==
    /\ IsPrefix(upstream, src)
    /\ c2s = "done" => upstream = src /\ upstream_eof

\* C5: the upstream is dialed only after the inspection returned a name that
\* is a key of host_mappings, byte for byte; after any inspection failure or
\* an unmapped name the connection has ended with an error and nothing was
\* dialed.
C5_DialOnlyMapped ==
    /\ (dialed # <<>> \/ stage \in {"dial", "splice"})
          => /\ pc = "done" /\ presult.kind = "Ok"
             /\ acc \in DOMAIN host_mappings
             /\ dialed \in {<<>>, <<host_mappings[acc]>>}
    /\ (pc = "done" /\ stage # "inspect"
          /\ (presult.kind # "Ok" \/ acc \notin DOMAIN host_mappings))
          => /\ stage = "closed"
             /\ result.kind \notin {"none", "Ok"}
             /\ dialed = <<>>

\* C5 witness: the name "A" was returned, the configuration maps "a", and
\* the connection ended with the unknown-name error.
C5_Witness ==
    /\ stage = "closed" /\ result.kind = "UnknownHost"
    /\ presult.kind = "Ok" /\ acc = <<65>> /\ dialed = <<>>

\* what the chain has read so far: the tape's first tape_pos bytes, then the
\* bytes read from the client socket after the inspection
ChainRead == SubSeq(tape, 1, tape_pos) \o SubSeq(src, handoff + 1, pos)

\* C6: tape replay ordering: what is written to the upstream is the tape, in
\* order, followed by the bytes read from the client socket after the
\* handoff; no byte is read from the socket before the whole tape has been
\* taken, and a finished copy has sent the whole tape.
C6_TapeFirst ==
    c2s # "off"
      => /\ IsPrefix(upstream, ChainRead)
         /\ c2s \in {"running", "done"} => upstream \o c2s_buf = ChainRead
         /\ pos > handoff => tape_pos = Len(tape)
         /\ c2s = "done" => tape_pos = Len(tape)

\* C6 witness: the copy has finished after sending a tape longer than one
\* buffer and then bytes read from the socket.
C6_Witness ==
    /\ c2s = "done" /\ Len(tape) > CopyBuf /\ pos > handoff
    /\ upstream = tape \o SubSeq(src, handoff + 1, pos)

\* C16: splice completion: while either copy is running the handler is in
\* the splice and has not returned or closed the client socket; a handler
\* that returned after a successful dial returned with both copies ended,
\* and with an error if either copy failed.
C16_SpliceCompletion ==
    /\ (c2s = "running" \/ s2c = "running")
          => (stage = "splice" /\ result = NoRet /\ client_open)
    /\ (stage = "closed" /\ c2s # "off")
          => /\ c2s \in {"done", "failed"} /\ s2c \in {"done", "failed"}
             /\ result.kind = (IF c2s = "failed" \/ s2c = "failed" THEN "IoError" ELSE "Ok")

\* C16 witness: the copy from the upstream has failed; the handler has not
\* returned, and the copy to the upstream is running, part of the way
\* through the client's bytes.
C16_Witness ==
    /\ stage = "splice" /\ s2c = "failed" /\ c2s = "running"
    /\ result = NoRet /\ upstream # <<>> /\ c2s_buf # <<>> /\ pos > handoff

\* C10: inspection deadline: a connection does not stay in the inspection
\* stage; a client that goes silent before its ClientHello is complete gets
\* the timeout (or the socket's error): the handler returns the error, the
\* client socket is closed and nothing is dialed.
C10_InspectionDeadline ==
    /\ [](presult.kind = "TimedOut" /\ stage # "inspect"
            => /\ stage = "closed" /\ result.kind = "TimedOut"
               /\ ~client_open /\ dialed = <<>>)
    /\ [](stage = "inspect" => <>(stage # "inspect"))
    /\ (~eof /\ hello.wellFormed /\ ~hello.complete)
          => <>(/\ stage = "closed" /\ result.kind \in {"TimedOut", "IoError"}
                /\ ~client_open /\ dialed = <<>>)

\* C10 witness: the client sent 3 bytes and went silent; the connection has
\* ended with the timeout.
C10_Witness ==
    /\ stage = "closed" /\ result.kind = "TimedOut"
    /\ Len(src) = 3 /\ pos = 3 /\ ~eof /\ ~client_open /\ dialed = <<>>

----------------------------------------------------------------------------
(* main: the accept loop (lines 74-87).  The loop awaits handle_connection *)
(* in place (line 78), so it is back at listener.accept() only after the   *)
(* handler has returned; a panic in the handler unwinds through main.  An  *)
(* accept error is logged and changes nothing (line 85).                   *)

\* what a client of SpecMain sends: nothing; a ClientHello for the mapped
\* name "a" and a further record; a ClientHello for the unmapped name "bc";
\* the first 30 bytes of a ClientHello; an application_data record
MainStreams ==
    LET a == Fragments(ClientHello(Extensions(0, <<(<<"a">>)>>), TRUE), 0).bytes
        bc == Fragments(ClientHello(Extensions(0, <<(<<"bc">>)>>), TRUE), 0).bytes
    IN {[bytes |-> <<>>, hello |-> NoHello],
        [bytes |-> a \o NextFlight, hello |-> HelloOf(0, <<(<<"a">>)>>)],
        [bytes |-> bc, hello |-> HelloOf(0, <<(<<"bc">>)>>)],
        [bytes |-> SubSeq(a, 1, 30),
         hello |-> [HelloOf(0, <<(<<"a">>)>>) EXCEPT !.complete = FALSE]],
        [bytes |-> <<23, 3, 3, 0, 1, 9>>, hello |-> NoHello]}

\* lines 75-78: a connection is accepted and handle_connection is entered
main_accept ==
    /\ accept_loop = "accepting" /\ accepted < MaxConns
    /\ accepted' = accepted + 1
    /\ accept_loop' = "handling"
    /\ log' = log
    /\ \E c \in MainStreams :
          /\ src' = c.bytes
          /\ hello' = c.hello
          /\ mask' = Falses(Len(c.bytes))
    /\ eof' \in BOOLEAN
    /\ validStream' = FALSE /\ shortReads' = FALSE /\ wrapped' = TRUE
    \* RecordingReader::new, HandshakeRecordReader::new (lines 102-103)
    /\ pos' = 0 /\ tape' = <<>> /\ state' = ReadingContentType
    /\ call' = NoCall /\ ret' = NoRet /\ out' = <<>>
    \* read_sni_host_name_from_client_hello is entered (line 107)
    /\ pc' = "typ" /\ need' = 1 /\ acc' = <<>> /\ limits' = <<>> /\ ext_typ' = 0
    /\ task' = "running" /\ presult' = NoRet
    \* under the timeout (lines 105-106)
    /\ stage' = "inspect" /\ timer' = "armed"
    /\ upstream' = <<>> /\ done_first' = FALSE /\ tape_pos' = 0
    /\ result' = NoRet /\ dialed' = <<>> /\ client_open' = TRUE
    /\ handoff' = 0 /\ c2s' = "off" /\ s2c' = "off" /\ c2s_buf' = <<>>
    /\ upstream_eof' = FALSE

\* lines 78-83: handle_connection has returned and the result is logged; a
\* panic inside it ends main instead
main_handled ==
    /\ accept_loop = "handling" /\ stage = "closed"
    /\ IF result.kind = "Panic"
       THEN accept_loop' = "panicked" /\ log' = log
       ELSE accept_loop' = "accepting" /\ log' = Append(log, result.kind)
    /\ UNCHANGED <<accepted, ivars, rvars, pvars, cvars>>

main == main_accept \/ main_handled

InitMain ==
    /\ accept_loop = "accepting" /\ accepted = 0 /\ log = <<>>
    /\ src = <<>> /\ mask = <<>> /\ hello = NoHello /\ eof = FALSE
    /\ validStream = FALSE /\ shortReads = FALSE /\ wrapped = TRUE
    /\ ReaderStart /\ ParserOff /\ ConnOff

NextMain == main \/ Next

SpecMain == InitMain /\ [][NextMain]_vars

\* C14 (as claimed): error isolation: whatever way a connection fails, the
\* accept loop is still running afterwards, and when it is back at accept
\* every connection so far has been logged.
C14_ErrorIsolation ==
    /\ accept_loop # "panicked"
    /\ accept_loop = "accepting" => Len(log) = accepted

\* C15 (as claimed): per-connection concurrency: while a connection is in
\* its inspection, dial or splice, a further connection can be accepted.
C15_Concurrent ==
    (stage \in {"inspect", "dial", "splice"} /\ accepted < MaxConns)
        => ENABLED main_accept

====
